---- MODULE Spec2Model ----
(***************************************************************************)
(* hueshortcut.py: keyboard shortcuts that toggle Hue lights through the   *)
(* bridge's REST API.                                                      *)
(*                                                                         *)
(* Spec     main(): the seed-and-bind loop, the hotkey callbacks running   *)
(*          toggle_device, and the bridge they talk to.                    *)
(* SpecSerial  the same program with the callbacks run one at a time and   *)
(*          the toggle calls of one device counted.                        *)
(* SpecLive the same as SpecSerial, with the progress the code guarantees. *)
(* SpecCall initialize_state and toggle_device called directly, one call   *)
(*          at a time, on any cache and any device_id.                     *)
(* SpecReg  register_hue_username(): the timed pairing poll.               *)
(* SpecRegFair  SpecReg in which every request and sleep returns.          *)
(* SpecValidate  the validation of an entered username, and the            *)
(*          registration it falls back to.                                 *)
(***************************************************************************)
EXTENDS Integers, Sequences, FiniteSets, TLC

(* ------------------------------ bounds -------------------------------- *)
\* device ids known to the bridge: 1..NDevices
NDevices == 2
\* hotkey callbacks that can be running at the same time
NThreads == 2
\* entries in the DEVICES configuration list
MaxBindings == 2
\* toggle calls per device in one run
MaxToggles == 2
\* pairing requests the scripted bridge answers "button not pressed"
MaxK == 15
\* objects in a JSON list the bridge answers a pairing request with
MaxItems == 2
\* seconds time.sleep(2) may oversleep
MaxOversleep == 1

Devices == 1..NDevices
Threads == 1..NThreads

(* The DEVICES list of the .env file, reduced to the device_id of each     *)
(* entry; entry i carries hotkey i.  interactive_device_setup appends      *)
(* whatever id the user selects, so an id may occur twice.                 *)
Configs == UNION {[1..n -> Devices] : n \in 1..MaxBindings}

(* --------------------------- the dictionary --------------------------- *)
\* a lookup that takes a missing entry for on
DictGet_defaultOn(dict, key, default) ==
    IF key \in DOMAIN dict THEN dict[key] ELSE ~default

\* device_states.get(device_id, False)
DictGet(dict, key, default) == IF key \in DOMAIN dict THEN dict[key] ELSE default

\* device_states = {device_id: value}: the other entries are dropped
DictSet_rebuild(dict, key, value) == [k \in {key} |-> value]

\* device_states[device_id] = value
DictSet(dict, key, value) ==
    [k \in (DOMAIN dict) \cup {key} |-> IF k = key THEN value ELSE dict[k]]

(* ------------------------------ the bridge ---------------------------- *)
(* What one HTTP exchange gives the caller.  reply:                        *)
(*   "exception"  requests.put / requests.get raised (refused, reset, ...) *)
(*   "not_json"   a response whose body res.json() cannot parse            *)
(*   "err_json"   a JSON body that reports an error, with or without an    *)
(*                HTTP error status: [{"error": {...}}]                    *)
(*   "ok_json"    the JSON body of a request the bridge carried out        *)
(* applied: whether the bridge changed the light (a PUT only).             *)
PutOutcomes ==
    { [reply |-> "exception", applied |-> FALSE],
      [reply |-> "exception", applied |-> TRUE],
      [reply |-> "not_json",  applied |-> FALSE],
      [reply |-> "not_json",  applied |-> TRUE],
      [reply |-> "err_json",  applied |-> FALSE],
      [reply |-> "ok_json",   applied |-> TRUE] }

(* GET /lights/<id>.  "no_on": a device object whose state has no "on".    *)
GetReplies == {"exception", "not_json", "err_json", "no_on", "ok_json"}

VARIABLES
    devices,         \* main: the parsed DEVICES list
    main_pc,         \* main: "seed" | "bind" | "wait" | "exit"
    idx,             \* main: position of the for loop in devices
    device_states,   \* the global dictionary device_id -> bool
    hotkeys,         \* keyboard: hotkey -> device_id bound into its lambda
    light,           \* bridge: the on state of each light
    tpc,             \* callback t: "idle" | "put" | "get" | "done"
    tdev,            \* callback t: device_id
    current_state,   \* callback t: current_state
    put_reply,       \* callback t: how its PUT ended ("none" before)
    get_reply,       \* callback t: how its GET ended ("none" before)
    confirmed_state, \* callback t: confirmed_state
    interfered,      \* callback t: someone else wrote device_states[tdev[t]]
                     \*             since t read it
    sent,            \* callback t: the requests its toggle_device call issued
    listening,       \* keyboard: the hook still dispatches hotkey presses
    watched,         \* the device whose toggle calls are counted
    started,         \* toggle calls on it since its last seed
    initial_state,   \* its cached state when that count began
    reliable,        \* those calls ran one after another and every PUT
                     \* and GET of them succeeded
    reg_pc,          \* register_hue_username: "off" | "loop" | "post" |
                     \*                        "sleep" | "done"
    elapsed,         \* time.time() - start_time, in seconds
    result,          \* result of the last pairing request
    username,        \* the return value ("None" for None, "" before)
    requests,        \* pairing requests sent so far
    scripted,        \* the bridge answers by the script below
    K,               \* scripted bridge: "button not pressed" to the first K
                     \* requests, success afterwards
    val_reply,       \* credential validation: what GET /lights gave
    last_seed,       \* direct calls: the initialize_state call just made
    unseeded,        \* direct calls: the toggle under way found no entry
    stale,           \* direct calls: ... found the cache unlike the light
    disturbed        \* direct calls: the light was switched from outside
                     \*               after the PUT of the toggle under way

mainvars == <<devices, main_pc, idx, hotkeys>>
threadvars == <<tpc, tdev, current_state, put_reply, get_reply,
                confirmed_state, interfered, sent>>
histvars == <<watched, started, initial_state, reliable>>
regvars == <<reg_pc, elapsed, result, username, requests, scripted, K,
             val_reply>>
callvars == <<last_seed, unseeded, stale, disturbed>>
progvars == <<devices, main_pc, idx, device_states, hotkeys, light, tpc, tdev,
              current_state, put_reply, get_reply, confirmed_state,
              interfered, sent, listening, watched, started, initial_state,
              reliable>>
vars == <<progvars, regvars, callvars>>

(* --------------------------- toggle_device ---------------------------- *)
\* the cached value is sent again instead of its negation
new_state_unflipped(cur) == cur

\* new_state = not current_state
new_state(cur) == ~cur

\* requests.put(...) or res.json() raises: control goes to the except clause
PutRaises(reply) == reply \in {"exception", "not_json"}

\* the assignment moved in front of the PUT: written whatever the PUT does
StatesAfterPut_early(ds, d, cur, reply) == DictSet(ds, d, new_state(cur))

\* the dictionary after lines 251-253
\* device_states[device_id] = new_state is reached only past res.json()
StatesAfterPut(ds, d, cur, reply) ==
    IF PutRaises(reply) THEN ds ELSE DictSet(ds, d, new_state(cur))

\* requests.get(...), confirm_res.json() or confirm_data["state"] raises
GetRaises(reply) == reply \in {"exception", "not_json", "err_json"}

\* confirm_data["state"].get("on", False)
ConfirmedState(reply, on) == IF reply = "ok_json" THEN on ELSE FALSE

\* an except clause that puts the old value back
StatesAfterGet_rollback(ds, d, cur, reply, on) ==
    IF GetRaises(reply) THEN DictSet(ds, d, cur) ELSE ds

\* the dictionary after lines 255-261: the confirmation is logged, the
\* except clause logs; neither assigns device_states
StatesAfterGet(ds, d, cur, reply, on) == ds

\* the GET put into a finally clause: sent whatever the PUT did
ConfirmsAfter_always(reply) == TRUE

\* line 256 is reached: the PUT and res.json() did not raise
ConfirmsAfter(reply) == ~PutRaises(reply)

\* an except clause that catches ValueError only: a transport error leaves
\* toggle_device and ends the thread that runs the callbacks
Propagates_transport(reply) == reply = "exception"

\* except Exception (line 260) catches whatever lines 251-259 raise
Propagates(reply) == FALSE

\* payload = {"on": new_state}
PutRequest(d, on) == [method |-> "PUT", dev |-> d, on |-> on]

\* requests.get(confirm_url)
GetRequest(d) == [method |-> "GET", dev |-> d, on |-> FALSE]

\* a command that flips the light instead of setting it
LightAfterPut_flip(on, new) == ~on

\* the bridge sets "on" to the value of the payload
LightAfterPut(on, new) == new

Active(t) == tpc[t] # "idle"
InFlight(t) == tpc[t] \in {"put", "get"}

\* callbacks other than t that read device_states[d] and have not returned
Readers(t, d) == {u \in Threads \ {t} : Active(u) /\ tdev[u] = d}

\* toggle_device(bridge_ip, username, d) starts on callback t and sends
\* its PUT: lines 245-251
Start(t, d) ==
    /\ main_pc # "exit"
    /\ tpc[t] = "idle"
    /\ LET cur == DictGet(device_states, d, FALSE) IN
       /\ tpc' = [tpc EXCEPT ![t] = "put"]
       /\ tdev' = [tdev EXCEPT ![t] = d]
       /\ current_state' = [current_state EXCEPT ![t] = cur]
       /\ sent' = [sent EXCEPT ![t] = <<PutRequest(d, new_state(cur))>>]
    /\ UNCHANGED <<mainvars, listening, device_states, light, put_reply,
                   get_reply, confirmed_state, interfered>>

\* a key press of hotkey h runs its lambda on callback t: line 306
Press(t, h) ==
    /\ listening
    /\ h \in DOMAIN hotkeys
    /\ Start(t, hotkeys[h])

\* the PUT returns or raises: lines 251-253
PutReturn(t, out) ==
    /\ main_pc # "exit"
    /\ tpc[t] = "put"
    /\ LET d == tdev[t] IN
       /\ light' = IF out.applied
                   THEN [light EXCEPT
                           ![d] = LightAfterPut(@, new_state(current_state[t]))]
                   ELSE light
       /\ device_states' = StatesAfterPut(device_states, d, current_state[t],
                                          out.reply)
       /\ put_reply' = [put_reply EXCEPT ![t] = out.reply]
       /\ tpc' = [tpc EXCEPT ![t] = IF ConfirmsAfter(out.reply) THEN "get"
                                                                 ELSE "done"]
       /\ sent' = [sent EXCEPT ![t] = IF ConfirmsAfter(out.reply)
                                      THEN Append(@, GetRequest(d)) ELSE @]
       /\ listening' = (listening /\ ~Propagates(out.reply))
       /\ interfered' = [u \in Threads |->
                            IF u \in Readers(t, d) /\ ~PutRaises(out.reply)
                            THEN TRUE ELSE interfered[u]]
    /\ UNCHANGED <<mainvars, tdev, current_state, get_reply, confirmed_state>>

\* the confirmation GET returns or raises: lines 255-261
GetReturn(t, reply) ==
    /\ main_pc # "exit"
    /\ tpc[t] = "get"
    /\ LET d == tdev[t] IN
       /\ device_states' = StatesAfterGet(device_states, d, current_state[t],
                                          reply, light[d])
       /\ get_reply' = [get_reply EXCEPT ![t] = reply]
       /\ confirmed_state' = [confirmed_state EXCEPT
                                 ![t] = ConfirmedState(reply, light[d])]
       /\ tpc' = [tpc EXCEPT ![t] = "done"]
       /\ listening' = (listening /\ ~Propagates(reply))
    /\ UNCHANGED <<mainvars, light, tdev, current_state, put_reply,
                   interfered, sent>>

\* toggle_device returns; the callback is free for the next key press
Return(t) ==
    /\ main_pc # "exit"
    /\ tpc[t] = "done"
    /\ tpc' = [tpc EXCEPT ![t] = "idle"]
    /\ tdev' = [tdev EXCEPT ![t] = 1]
    /\ current_state' = [current_state EXCEPT ![t] = FALSE]
    /\ put_reply' = [put_reply EXCEPT ![t] = "none"]
    /\ get_reply' = [get_reply EXCEPT ![t] = "none"]
    /\ confirmed_state' = [confirmed_state EXCEPT ![t] = FALSE]
    /\ interfered' = [interfered EXCEPT ![t] = FALSE]
    /\ sent' = [sent EXCEPT ![t] = <<>>]
    /\ UNCHANGED <<mainvars, listening, device_states, light>>

(* -------------------------- initialize_state -------------------------- *)
\* an except clause that assumes the light is on
SeededState_on(reply, on) == IF reply = "ok_json" THEN on ELSE TRUE

\* data["state"].get("on", False), or False from the except clause
SeededState(reply, on) == IF reply = "ok_json" THEN on ELSE FALSE

\* initialize_state(bridge_ip, username, d) returns: lines 228-237
SeedDevice(d, reply) ==
    /\ device_states' = DictSet(device_states, d, SeededState(reply, light[d]))
    /\ interfered' = [u \in Threads |->
                         IF Active(u) /\ tdev[u] = d THEN TRUE
                         ELSE interfered[u]]
    /\ UNCHANGED <<devices, idx, hotkeys, light, tpc, tdev, current_state,
                   put_reply, get_reply, confirmed_state, sent, listening>>

\* initialize_state(bridge_ip, username, devices[idx]) returns: lines 302-303
Seed(reply) ==
    /\ main_pc = "seed"
    /\ SeedDevice(devices[idx], reply)
    /\ main_pc' = "bind"

(* -------------------------------- main -------------------------------- *)
\* lambda: toggle_device(bridge_ip, username, device_id): every lambda
\* reads the loop variable when it runs, which holds the device bound last
HotkeysAfterBind_late(hk, i, devs) ==
    [h \in (DOMAIN hk) \cup {i} |-> devs[i]]

\* lambda device_id=device_id: ... keeps the device_id of its own binding
HotkeysAfterBind(hk, i, devs) == DictSet(hk, i, devs[i])

\* keyboard.add_hotkey(hotkey, lambda device_id=device_id: ...): lines 304-306
Bind ==
    /\ main_pc = "bind"
    /\ hotkeys' = HotkeysAfterBind(hotkeys, idx, devices)
    /\ IF idx < Len(devices)
       THEN idx' = idx + 1 /\ main_pc' = "seed"
       ELSE idx' = idx /\ main_pc' = "wait"
    /\ UNCHANGED <<devices, device_states, light, threadvars, listening>>

\* keyboard.wait("esc") returns and the process ends: line 309
Exit ==
    /\ main_pc = "wait"
    /\ main_pc' = "exit"
    /\ UNCHANGED <<devices, idx, hotkeys, device_states, light, threadvars,
                   listening>>

\* somebody else (wall switch, another app) switches light d
ExternalChange(d) ==
    /\ main_pc # "exit"
    /\ light' = [light EXCEPT ![d] = ~@]
    /\ UNCHANGED <<mainvars, device_states, threadvars, listening>>

NoResult == [kind |-> "none", items |-> <<>>]

NoReply == [kind |-> "none", n |-> 0]

\* register_hue_username is not running
RegOff ==
    /\ reg_pc = "off"
    /\ elapsed = 0
    /\ result = NoResult
    /\ username = ""
    /\ requests = 0
    /\ scripted = FALSE
    /\ K = 0
    /\ val_reply = NoReply

NoSeed == [dev |-> 0, reply |-> "none", on |-> FALSE]

\* no direct call has been made
CallOff ==
    /\ last_seed = NoSeed
    /\ unseeded = FALSE
    /\ stale = FALSE
    /\ disturbed = FALSE

\* main() has parsed DEVICES and enters its for loop
ProgInit ==
    /\ devices \in Configs
    /\ main_pc = "seed"
    /\ idx = 1
    /\ device_states = <<>>
    /\ hotkeys = <<>>
    /\ light \in [Devices -> BOOLEAN]
    /\ tpc = [t \in Threads |-> "idle"]
    /\ tdev = [t \in Threads |-> 1]
    /\ current_state = [t \in Threads |-> FALSE]
    /\ put_reply = [t \in Threads |-> "none"]
    /\ get_reply = [t \in Threads |-> "none"]
    /\ confirmed_state = [t \in Threads |-> FALSE]
    /\ interfered = [t \in Threads |-> FALSE]
    /\ sent = [t \in Threads |-> <<>>]
    /\ listening = TRUE
    /\ CallOff
    /\ started = 0
    /\ initial_state = FALSE
    /\ reliable = TRUE

Init ==
    /\ RegOff
    /\ ProgInit
    /\ watched = 1

ProgNext ==
    \/ (\E reply \in GetReplies : Seed(reply)) /\ UNCHANGED histvars
    \/ Bind /\ UNCHANGED histvars
    \/ Exit /\ UNCHANGED histvars
    \/ (\E d \in Devices : ExternalChange(d)) /\ UNCHANGED histvars
    \/ (\E t \in Threads, h \in 1..MaxBindings : Press(t, h))
          /\ UNCHANGED histvars
    \/ (\E t \in Threads, out \in PutOutcomes : PutReturn(t, out))
          /\ UNCHANGED histvars
    \/ (\E t \in Threads, reply \in GetReplies : GetReturn(t, reply))
          /\ UNCHANGED histvars
    \/ (\E t \in Threads : Return(t)) /\ UNCHANGED histvars

Next == ProgNext /\ UNCHANGED <<regvars, callvars>>

Spec == Init /\ [][Next]_vars

(* ------------------- callbacks run one after another ------------------ *)
(* The hook thread runs one callback at a time (callback 1); for the       *)
(* device under watch the run counts the toggle calls since it was seeded. *)

\* a toggle call on d starts
CountCall(d) ==
    IF d = watched
    THEN /\ started < MaxToggles
         /\ started' = started + 1
         /\ UNCHANGED <<watched, initial_state, reliable>>
    ELSE UNCHANGED histvars

\* a PUT or GET for d ended with this reply
CountReply(d, reply) ==
    /\ reliable' = (reliable /\ (d = watched => reply = "ok_json"))
    /\ UNCHANGED <<watched, started, initial_state>>

\* d was seeded: the count starts again, unless a toggle of d is under way
CountSeed(d) ==
    IF d # watched
    THEN UNCHANGED histvars
    ELSE IF \E u \in Threads : Active(u) /\ tdev[u] = d
    THEN /\ reliable' = FALSE
         /\ UNCHANGED <<watched, started, initial_state>>
    ELSE /\ reliable' = TRUE
         /\ started' = 0
         /\ initial_state' = device_states'[d]
         /\ UNCHANGED watched

ProgNextSerial ==
    \/ (\E reply \in GetReplies : Seed(reply)) /\ CountSeed(devices[idx])
    \/ Bind /\ UNCHANGED histvars
    \/ Exit /\ UNCHANGED histvars
    \/ (\E d \in Devices : ExternalChange(d)) /\ UNCHANGED histvars
    \/ \E h \in 1..MaxBindings : Press(1, h) /\ CountCall(hotkeys[h])
    \/ \E out \in PutOutcomes :
          PutReturn(1, out) /\ CountReply(tdev[1], out.reply)
    \/ \E reply \in GetReplies :
          GetReturn(1, reply) /\ CountReply(tdev[1], reply)
    \/ Return(1) /\ UNCHANGED histvars

NextSerial == ProgNextSerial /\ UNCHANGED <<regvars, callvars>>

InitSerial ==
    /\ RegOff
    /\ ProgInit
    /\ watched \in Devices

SpecSerial == InitSerial /\ [][NextSerial]_vars

(* ------------------------------ progress ------------------------------ *)
\* requests.put(command_url, json=payload): no timeout argument, the call
\* waits for the bridge as long as the bridge stays silent
PutTimesOut == FALSE

\* requests.get(confirm_url): no timeout argument either
GetTimesOut == FALSE

\* a PUT that is known to end
PutEnds ==
    /\ PutTimesOut
    /\ \E out \in PutOutcomes :
          PutReturn(1, out) /\ CountReply(tdev[1], out.reply)
    /\ UNCHANGED <<regvars, callvars>>

\* a GET that is known to end
GetEnds ==
    /\ GetTimesOut
    /\ \E reply \in GetReplies :
          GetReturn(1, reply) /\ CountReply(tdev[1], reply)
    /\ UNCHANGED <<regvars, callvars>>

\* the callback thread runs on: a call past its requests returns
Returns == Return(1) /\ UNCHANGED <<histvars, regvars, callvars>>

SpecLive ==
    /\ InitSerial
    /\ [][NextSerial]_vars
    /\ WF_vars(Returns)
    /\ WF_vars(PutEnds)
    /\ WF_vars(GetEnds)

(* ------------------------- the functions alone ------------------------ *)
(* initialize_state and toggle_device called directly, one call at a time  *)
(* (callback 1), for any device_id, starting from any dictionary.          *)

\* the dictionaries over the device ids
AllStates == UNION {[S -> BOOLEAN] : S \in SUBSET Devices}

\* initialize_state(bridge_ip, username, d)
SeedCall(d, reply) ==
    /\ main_pc # "exit"
    /\ tpc[1] = "idle"
    /\ SeedDevice(d, reply)
    /\ UNCHANGED main_pc
    /\ last_seed' = [dev |-> d, reply |-> reply, on |-> light[d]]
    /\ UNCHANGED <<unseeded, stale, disturbed>>

\* toggle_device(bridge_ip, username, d)
ToggleCall(d) ==
    /\ Start(1, d)
    /\ last_seed' = NoSeed
    /\ unseeded' = (d \notin DOMAIN device_states)
    /\ stale' = (DictGet(device_states, d, FALSE) # light[d])
    /\ disturbed' = FALSE

\* the light of d is switched from outside
Outside(d) ==
    /\ ExternalChange(d)
    /\ disturbed' = (disturbed \/ (tpc[1] \in {"get", "done"} /\ tdev[1] = d))
    /\ UNCHANGED <<last_seed, unseeded, stale>>

\* the call returned
ReturnCall ==
    /\ Return(1)
    /\ unseeded' = FALSE
    /\ stale' = FALSE
    /\ disturbed' = FALSE
    /\ UNCHANGED last_seed

InitCall ==
    /\ RegOff
    /\ CallOff
    /\ devices = <<1>>
    /\ main_pc = "wait"
    /\ idx = 1
    /\ device_states \in AllStates
    /\ hotkeys = <<>>
    /\ light \in [Devices -> BOOLEAN]
    /\ tpc = [t \in Threads |-> "idle"]
    /\ tdev = [t \in Threads |-> 1]
    /\ current_state = [t \in Threads |-> FALSE]
    /\ put_reply = [t \in Threads |-> "none"]
    /\ get_reply = [t \in Threads |-> "none"]
    /\ confirmed_state = [t \in Threads |-> FALSE]
    /\ interfered = [t \in Threads |-> FALSE]
    /\ sent = [t \in Threads |-> <<>>]
    /\ listening = TRUE
    /\ watched = 1
    /\ started = 0
    /\ initial_state = FALSE
    /\ reliable = TRUE

NextCall ==
    /\ \/ \E d \in Devices, reply \in GetReplies : SeedCall(d, reply)
       \/ \E d \in Devices : ToggleCall(d)
       \/ (\E out \in PutOutcomes : PutReturn(1, out)) /\ UNCHANGED callvars
       \/ (\E reply \in GetReplies : GetReturn(1, reply))
             /\ UNCHANGED callvars
       \/ ReturnCall
       \/ \E d \in Devices : Outside(d)
    /\ UNCHANGED <<regvars, histvars>>

SpecCall == InitCall /\ [][NextCall]_vars

(* ----------------------- register_hue_username ------------------------ *)
\* timeout=30, the default every caller uses
TIMEOUT == 30
\* requests.post(url, json=payload, timeout=5)
REQUEST_TIMEOUT == 5
\* time.sleep(2)
SLEEP == 2

(* What a pairing request gives the caller.  kind:                         *)
(*   "exception"  requests.post raised                                     *)
(*   "not_json"   response.json() raised                                   *)
(*   "dict"       a JSON object                                            *)
(*   "list"       a JSON list of objects, each {"success": {"username":    *)
(*                u}}, {"success": {}} (username "missing") or {"error":   *)
(*                {...}}                                                   *)
RegObjects ==
    { [key |-> "success", username |-> "u1"],
      [key |-> "success", username |-> "u2"],
      [key |-> "success", username |-> "missing"],
      [key |-> "error",   username |-> "missing"] }

RegResults ==
    { [kind |-> k, items |-> <<>>] : k \in {"exception", "not_json", "dict"} }
    \cup { [kind |-> "list", items |-> its] :
             its \in UNION {[1..n -> RegObjects] : n \in 0..MaxItems} }

\* [{"error": {"type": 101, "description": "link button not pressed"}}]
NotPressed ==
    [kind |-> "list", items |-> <<[key |-> "error", username |-> "missing"]>>]

\* [{"success": {"username": "u1"}}]
Pressed ==
    [kind |-> "list", items |-> <<[key |-> "success", username |-> "u1"]>>]

\* the answer of the scripted bridge to its i-th pairing request
ScriptedResult(k, i) == IF i <= k THEN NotPressed ELSE Pressed

\* the request timeout taken off the deadline
LoopContinues_early(e) == e + REQUEST_TIMEOUT < TIMEOUT

\* while time.time() - start_time <= timeout
LoopContinues_inclusive(e) == e <= TIMEOUT

\* while time.time() - start_time < timeout
LoopContinues(e) == e < TIMEOUT

\* isinstance(result, list) and "success" in result[0], where it evaluates
FirstIsSuccess(res) ==
    res.kind = "list" /\ Len(res.items) >= 1 /\ res.items[1].key = "success"

\* lines 47-55 raise: the post, the parse, result[0] of an empty list or
\* of an object, or ["username"] of a success object without one
RegRaises(res) ==
    \/ res.kind \in {"exception", "not_json", "dict"}
    \/ res.kind = "list" /\ res.items = <<>>
    \/ FirstIsSuccess(res) /\ res.items[1].username = "missing"

\* the success check forgotten: any well-formed list ends the poll
RegReturns_anyList(res) == ~RegRaises(res) /\ res.kind = "list"

\* line 53 is reached
RegReturns(res) == ~RegRaises(res) /\ FirstIsSuccess(res)

\* result[0]["success"]["username"]
Credential(res) == res.items[1].username

\* time.sleep(2) indented into the except clause
SleepsAfter_exceptOnly(res) == RegRaises(res)

\* line 59 follows the try statement: every attempt that did not return
SleepsAfter(res) == TRUE

\* line 45: the loop test
RegLoopTest ==
    /\ reg_pc = "loop"
    /\ IF LoopContinues(elapsed)
       THEN /\ reg_pc' = "post"
            /\ requests' = requests + 1
            /\ UNCHANGED username
       ELSE /\ reg_pc' = "done"
            /\ username' = "None"
            /\ UNCHANGED requests
    /\ UNCHANGED <<elapsed, result, scripted, K, val_reply>>

\* lines 47-58: the request took dur seconds and gave res
RegPost(res, dur) ==
    /\ reg_pc = "post"
    /\ scripted => res = ScriptedResult(K, requests)
    /\ elapsed' = elapsed + dur
    /\ result' = res
    /\ IF RegReturns(res)
       THEN reg_pc' = "done" /\ username' = Credential(res)
       ELSE /\ reg_pc' = IF SleepsAfter(res) THEN "sleep" ELSE "loop"
            /\ UNCHANGED username
    /\ UNCHANGED <<requests, scripted, K, val_reply>>

\* line 59
RegSleep(over) ==
    /\ reg_pc = "sleep"
    /\ elapsed' = elapsed + SLEEP + over
    /\ reg_pc' = "loop"
    /\ UNCHANGED <<result, username, requests, scripted, K, val_reply>>

\* main() has not read its configuration yet
ProgOff ==
    /\ devices = <<1>>
    /\ main_pc = "seed"
    /\ idx = 1
    /\ device_states = <<>>
    /\ hotkeys = <<>>
    /\ light = [d \in Devices |-> FALSE]
    /\ tpc = [t \in Threads |-> "idle"]
    /\ tdev = [t \in Threads |-> 1]
    /\ current_state = [t \in Threads |-> FALSE]
    /\ put_reply = [t \in Threads |-> "none"]
    /\ get_reply = [t \in Threads |-> "none"]
    /\ confirmed_state = [t \in Threads |-> FALSE]
    /\ interfered = [t \in Threads |-> FALSE]
    /\ sent = [t \in Threads |-> <<>>]
    /\ listening = TRUE
    /\ CallOff
    /\ watched = 1
    /\ started = 0
    /\ initial_state = FALSE
    /\ reliable = TRUE

\* line 44: start_time = time.time()
InitReg ==
    /\ ProgOff
    /\ reg_pc = "loop"
    /\ elapsed = 0
    /\ result = NoResult
    /\ username = ""
    /\ requests = 0
    /\ scripted \in BOOLEAN
    /\ K \in 0..MaxK
    /\ ~scripted => K = 0
    /\ val_reply = NoReply

NextReg ==
    /\ \/ RegLoopTest
       \/ \E res \in RegResults, dur \in 0..REQUEST_TIMEOUT : RegPost(res, dur)
       \/ \E over \in 0..MaxOversleep : RegSleep(over)
    /\ UNCHANGED <<progvars, callvars>>

SpecReg == InitReg /\ [][NextReg]_vars

\* register_hue_username is sequential code: as long as a request or a
\* sleep returns, the function takes its next step
SpecRegFair == SpecReg /\ WF_vars(NextReg)

(* ----------------------- credential validation ------------------------ *)
(* What requests.get(test_url, timeout=5) and response.json() give for the *)
(* entered username:                                                       *)
(*   "exception"  the request raised                                       *)
(*   "not_json"   the body is not JSON                                     *)
(*   "list"       a JSON list of n objects (the bridge's error replies)    *)
(*   "dict"       a JSON object of n members (the bridge's light mapping)  *)
(*   "scalar"     any other JSON value, falsy (n = 0) or truthy (n = 1)    *)
ValReplies ==
    {[kind |-> k, n |-> n] : k \in {"list", "dict"}, n \in 0..MaxItems}
        \cup {[kind |-> "scalar", n |-> n] : n \in 0..1}
        \cup {[kind |-> "exception", n |-> 0], [kind |-> "not_json", n |-> 0]}

\* response.json() raises, or the request did
ValRaises(reply) == reply.kind \in {"exception", "not_json"}

\* if result:
CredentialValid_truthy(reply) == ~ValRaises(reply) /\ reply.n > 0

\* if isinstance(result, dict) and result:
CredentialValid(reply) ==
    ~ValRaises(reply) /\ reply.kind = "dict" /\ reply.n > 0

\* update_username lines 84-99, interactive_setup lines 155-167: the entered
\* username ("cand") is kept, or register_hue_username(bridge_ip) is called
Validate(reply) ==
    /\ reg_pc = "validate"
    /\ val_reply' = reply
    /\ IF CredentialValid(reply)
       THEN reg_pc' = "done" /\ username' = "cand"
       ELSE reg_pc' = "loop" /\ UNCHANGED username
    /\ UNCHANGED <<elapsed, result, requests, scripted, K>>

\* choice == 'y' and a username was entered
InitValidate ==
    /\ ProgOff
    /\ reg_pc = "validate"
    /\ elapsed = 0
    /\ result = NoResult
    /\ username = ""
    /\ requests = 0
    /\ scripted \in BOOLEAN
    /\ K \in 0..MaxK
    /\ ~scripted => K = 0
    /\ val_reply = NoReply

NextValidate ==
    /\ \/ \E reply \in ValReplies : Validate(reply)
       \/ RegLoopTest
       \/ \E res \in RegResults, dur \in 0..REQUEST_TIMEOUT : RegPost(res, dur)
       \/ \E over \in 0..MaxOversleep : RegSleep(over)
    /\ UNCHANGED <<progvars, callvars>>

SpecValidate == InitValidate /\ [][NextValidate]_vars

(* ============================== claims ================================ *)
\* the cached state a toggle of device d would read
Cached(d) == DictGet(device_states, d, FALSE)

\* C1: after N toggle calls on a device, run one after another with every
\* PUT and GET succeeding, the cached state is initial_state XOR (N is odd)
C1_ParityOfToggles ==
    (reliable /\ \A t \in Threads : ~(InFlight(t) /\ tdev[t] = watched))
        => Cached(watched) = (initial_state # (started % 2 = 1))

\* C1 witness: two reliable toggles of a device that was seeded on
C1_Witness ==
    /\ reliable /\ started >= 2 /\ initial_state
    /\ \A t \in Threads : ~(InFlight(t) /\ tdev[t] = watched)

\* C2: a toggle whose PUT raised leaves the cached state of its device as
\* it was when the toggle read it (nobody else having written the entry),
\* so the next toggle computes the same desired value
C2_FailedPutKeepsCache ==
    \A t \in Threads :
        (tpc[t] = "done" /\ put_reply[t] \in {"exception", "not_json"}
            /\ ~interfered[t])
            => Cached(tdev[t]) = current_state[t]

\* C2 witness: a failed PUT on a device cached on
C2_Witness ==
    \E t \in Threads :
        /\ tpc[t] = "done" /\ put_reply[t] = "exception"
        /\ ~interfered[t] /\ current_state[t]

\* C3: PUT accepted, confirmation read reports the other value: the toggle
\* ends with the cache holding the confirmed value
C3_ConfirmedValueWins ==
    \A t \in Threads :
        (tpc[t] = "done" /\ put_reply[t] = "ok_json"
            /\ get_reply[t] \in {"ok_json", "no_on"}
            /\ confirmed_state[t] # ~current_state[t] /\ ~interfered[t])
            => Cached(tdev[t]) = confirmed_state[t]

\* C4: no two toggles of one device are between their read of the cache
\* (line 245) and their write (line 253) holding the same pre-toggle state
C4_NoLostUpdate ==
    \A t, u \in Threads :
        (t # u /\ tpc[t] = "put" /\ tpc[u] = "put" /\ tdev[t] = tdev[u])
            => current_state[t] # current_state[u]

\* C5: PUT accepted, confirmation read failed: the toggle ends with the
\* cache holding the desired value
C5_FailedConfirmKeepsOptimistic ==
    \A t \in Threads :
        (tpc[t] = "done" /\ put_reply[t] = "ok_json"
            /\ get_reply[t] \in {"exception", "not_json", "err_json"}
            /\ ~interfered[t])
            => /\ tdev[t] \in DOMAIN device_states
               /\ device_states[tdev[t]] = ~current_state[t]

\* C5 witness: the confirmation read of an accepted toggle raised
C5_Witness ==
    \E t \in Threads :
        /\ tpc[t] = "done" /\ put_reply[t] = "ok_json"
        /\ get_reply[t] = "exception" /\ ~interfered[t]

\* C6: a PUT answered with an error (error status or error body) is a
\* failed command: the cache keeps its value and no confirmation read runs
C6_ErrorReplyIsFailure ==
    \A t \in Threads :
        (put_reply[t] = "err_json" /\ ~interfered[t])
            => /\ tpc[t] = "done"
               /\ get_reply[t] = "none"
               /\ Cached(tdev[t]) = current_state[t]

\* C10: all seeding is finished before a key press is dispatched: no toggle
\* is under way while initialize_state of a configured device is pending
C10_SeededBeforeDispatch ==
    \A t \in Threads : InFlight(t) => main_pc # "seed"

\* the response is a list containing a success object
HasSuccessObject(res) ==
    res.kind = "list" /\ \E i \in 1..Len(res.items) : res.items[i].key = "success"

\* C7: polling that never got a success response returns failure, and not
\* before the timeout has elapsed since polling started
C7_FailureNotBeforeTimeout ==
    (reg_pc = "done" /\ ~HasSuccessObject(result))
        => username = "None" /\ elapsed >= 30

\* C7 witness: the poll gave up after requests that all failed
C7_Witness ==
    reg_pc = "done" /\ username = "None" /\ requests >= 2
        /\ ~HasSuccessObject(result)

\* C8 as stated: with the scripted bridge registration returns the
\* credential, no earlier than K * 2 seconds after polling started
C8_ScriptedReturnsCredential ==
    (reg_pc = "done" /\ scripted) => username = "u1" /\ elapsed >= K * 2

\* C8 amended: with the scripted bridge registration returns the credential
\* of request K + 1, no earlier than K * 2 seconds after polling started,
\* unless the timeout elapsed before request K + 1 could be sent: then it
\* returns failure, at or after the timeout
C8_ScriptedCredentialOrTimeout ==
    (reg_pc = "done" /\ scripted)
        => \/ username = "u1" /\ requests = K + 1 /\ elapsed >= K * 2
                /\ result = Pressed
           \/ username = "None" /\ requests <= K /\ elapsed >= 30

\* C8 witness: the button was pressed after three refused requests
C8_Witness ==
    reg_pc = "done" /\ scripted /\ K = 3 /\ username = "u1"

\* C9: registration ends either with the credential of a success object of
\* a list response, or with failure once the timeout has elapsed; no other
\* response ends it
C9_TwoTerminalOutcomes ==
    reg_pc = "done"
        => \/ /\ username \notin {"None", "missing", ""}
              /\ result.kind = "list"
              /\ \E i \in 1..Len(result.items) :
                    /\ result.items[i].key = "success"
                    /\ result.items[i].username = username
           \/ username = "None" /\ elapsed >= 30

\* C9 witness: a request that raised or gave a malformed body was followed
\* by another request
C9_Witness ==
    /\ reg_pc = "post" /\ requests >= 2 /\ elapsed < 30
    /\ result.kind \in {"exception", "not_json", "dict"}

\* C11: a seed whose fetch failed stores off for the device, and a seed
\* whose fetch succeeded stores the on value the bridge reported
C11_SeedStoresReportedOrOff ==
    last_seed.reply # "none"
        => /\ last_seed.dev \in DOMAIN device_states
           /\ last_seed.reply \in {"exception", "not_json", "err_json"}
                 => device_states[last_seed.dev] = FALSE
           /\ last_seed.reply = "ok_json"
                 => device_states[last_seed.dev] = last_seed.on

\* C11 witness: the fetch for a light that is on failed, and the program
\* goes on
C11_Witness ==
    /\ last_seed.reply = "exception" /\ last_seed.on
    /\ main_pc # "exit" /\ listening

\* C17: a toggle of a device_id without an entry reads off, sends on = true
\* and, once the PUT is accepted, leaves on in the cache
C17_UnseededTogglesOn ==
    (unseeded /\ Active(1))
        => /\ current_state[1] = FALSE
           /\ sent[1][1] = [method |-> "PUT", dev |-> tdev[1], on |-> TRUE]
           /\ listening
           /\ put_reply[1] = "ok_json"
                 => /\ tdev[1] \in DOMAIN device_states
                    /\ device_states[tdev[1]] = TRUE

\* C17 witness: a toggle of a device_id without an entry ran to its end
C17_Witness ==
    unseeded /\ tpc[1] = "done" /\ put_reply[1] = "ok_json"
        /\ get_reply[1] = "ok_json"

\* C19: after a toggle whose PUT the bridge carried out, with no switch of
\* the light from outside since, the cached state is the light's state
C19_CacheMeetsBridge ==
    (tpc[1] \in {"get", "done"} /\ put_reply[1] = "ok_json" /\ ~disturbed)
        => Cached(tdev[1]) = light[tdev[1]]

\* C19 witness: the cache was unlike the light when the toggle started
C19_Witness ==
    /\ tpc[1] = "done" /\ put_reply[1] = "ok_json" /\ ~disturbed
    /\ stale /\ ~unseeded

\* C12: every bound hotkey holds the device_id of its own binding, whatever
\* was bound after it, and every toggle under way is for such a device
C12_HotkeyKeepsItsDevice ==
    /\ \A h \in DOMAIN hotkeys : hotkeys[h] = devices[h]
    /\ \A t \in Threads :
          Active(t) => \E h \in DOMAIN hotkeys : tdev[t] = devices[h]

\* C12 witness: with two hotkeys bound to different devices, a press of
\* the first one toggles the first device
C12_Witness ==
    /\ DOMAIN hotkeys = {1, 2} /\ devices[1] # devices[2]
    /\ main_pc = "wait"
    /\ \E t \in Threads : tpc[t] = "put" /\ tdev[t] = devices[1]

\* C13: failed toggles leave the hook dispatching: while main has not left
\* keyboard.wait, a press of any bound hotkey on a free callback is taken
C13_FailuresKeepListening ==
    main_pc # "exit"
        => /\ listening
           /\ \A t \in Threads, h \in DOMAIN hotkeys :
                 tpc[t] = "idle" => ENABLED Press(t, h)

\* C13 witness: one toggle ended with a failed PUT, one with a failed GET,
\* and main still waits for the exit key
C13_Witness ==
    /\ main_pc = "wait" /\ listening
    /\ \E t, u \in Threads :
          /\ tpc[t] = "done" /\ put_reply[t] = "exception"
          /\ tpc[u] = "done" /\ get_reply[u] = "exception"

\* C14: a toggle sends one PUT with on = not the state it read; when the
\* PUT is accepted one GET for the same device follows it, and when the PUT
\* raised no GET is sent
C14_OnePutThenOneGet ==
    \A t \in Threads :
        Active(t)
            => /\ sent[t][1] = [method |-> "PUT", dev |-> tdev[t],
                                on |-> ~current_state[t]]
               /\ put_reply[t] = "none" => Len(sent[t]) = 1
               /\ put_reply[t] \in {"exception", "not_json"}
                     => Len(sent[t]) = 1
               /\ put_reply[t] = "ok_json"
                     => /\ Len(sent[t]) = 2
                        /\ sent[t][2].method = "GET"
                        /\ sent[t][2].dev = tdev[t]

\* C14 witness: device 1 cached off, the PUT accepted, the GET answered
C14_Witness ==
    \E t \in Threads :
        /\ tpc[t] = "done" /\ tdev[t] = 1 /\ ~current_state[t]
        /\ put_reply[t] = "ok_json" /\ get_reply[t] = "ok_json"
        /\ confirmed_state[t]

\* C15: a toggle that has started gets to its end (unless the process is
\* ended by the exit key first)
C15_ToggleCompletes ==
    InFlight(1) ~> (~InFlight(1) \/ main_pc = "exit")

\* the entry of d differs between the two states of a step
EntryChanged(d) ==
    \/ (d \in DOMAIN device_states) # (d \in DOMAIN device_states')
    \/ /\ d \in DOMAIN device_states
       /\ d \in DOMAIN device_states'
       /\ device_states[d] # device_states'[d]

\* C16: the entry of a device changes only in a step of a toggle or seed of
\* that device, and a toggle whose PUT was accepted leaves not the state it
\* read in the entry of its device whatever runs on other devices meanwhile
C16_DistinctDevicesIndependent ==
    /\ [][\A d \in Devices :
            EntryChanged(d)
                => \/ \E t \in Threads : tpc[t] = "put" /\ tdev[t] = d
                                           /\ tpc'[t] # "put"
                   \/ main_pc = "seed" /\ devices[idx] = d
                         /\ main_pc' = "bind"]_vars
    /\ [](\A t \in Threads :
            (tpc[t] \in {"get", "done"} /\ put_reply[t] = "ok_json"
                /\ ~interfered[t])
                => /\ tdev[t] \in DOMAIN device_states
                   /\ device_states[tdev[t]] = ~current_state[t])

\* C16 witness: toggles of two devices ran at the same time and both ended
C16_Witness ==
    \E t, u \in Threads :
        /\ tdev[t] # tdev[u]
        /\ tpc[t] = "done" /\ put_reply[t] = "ok_json"
        /\ tpc[u] = "done" /\ put_reply[u] = "ok_json"

\* C18: the entered username is used only when the reply to the lights read
\* is a non-empty JSON object; after every other reply it is not used and
\* register_hue_username runs, so that the outcome is a registered
\* credential or none
C18_OnlyNonEmptyMappingAccepted ==
    val_reply.kind # "none"
        => IF val_reply.kind = "dict" /\ val_reply.n > 0
           THEN reg_pc = "done" /\ username = "cand" /\ requests = 0
           ELSE /\ username # "cand"
                /\ reg_pc \in {"loop", "post", "sleep", "done"}
                /\ reg_pc = "done"
                      => /\ requests >= 1
                         /\ \/ username = "None"
                            \/ HasSuccessObject(result) /\ username \in {"u1", "u2"}

\* C18 witness: the bridge answered the lights read with an error list and
\* the registration that followed returned a credential
C18_Witness ==
    /\ val_reply = [kind |-> "list", n |-> 1]
    /\ reg_pc = "done" /\ username = "u1"

\* C20: registration issues at most ceil(TIMEOUT / SLEEP) = 15 requests and
\* ends when each of its requests and sleeps returns
C20_RegistrationEnds ==
    /\ [](requests <= (TIMEOUT + SLEEP - 1) \div SLEEP)
    /\ <>(reg_pc = "done")

\* C20 witness: the fifteenth request is under way
C20_Witness == reg_pc = "post" /\ requests = 15 /\ elapsed < TIMEOUT

TypeOK ==
    /\ devices \in Configs
    /\ main_pc \in {"seed", "bind", "wait", "exit"}
    /\ idx \in 1..Len(devices)
    /\ DOMAIN device_states \subseteq Devices
    /\ \A d \in DOMAIN device_states : device_states[d] \in BOOLEAN
    /\ \A h \in DOMAIN hotkeys : hotkeys[h] \in Devices
    /\ light \in [Devices -> BOOLEAN]
    /\ tpc \in [Threads -> {"idle", "put", "get", "done"}]
====
